---- MODULE Spec2Model ----
(***************************************************************************)
(* StationController (station_controller.py) and DataLogger                *)
(* (data_logger.py) of CircularManuSystem as a state machine.              *)
(*                                                                         *)
(* Two stations S1 and S2 share one DataLogger.  Every station has the     *)
(* fields of StationController, a motor, and the loop threads that start() *)
(* has spawned for it; a loop thread is a program counter <<function,      *)
(* label>> plus the locals of the function it is in.  One caller thread    *)
(* issues start() and stop(); get_kpis() may be called at any moment.      *)
(* Sensors, tag reads and wait results are inputs chosen with \E; a call   *)
(* into a collaborator may raise where the fault set F of the action       *)
(* allows it.                                                              *)
(***************************************************************************)
EXTENDS Integers, Sequences, FiniteSets, TLC

\* ---------------------------------------------------------------- bounds
\* Parts presented to the line over a run (all stations together).
MaxParts == 2
\* Parts presented over a run in which start() and stop() are called.
MaxLifeParts == 1
\* Exceptions raised by collaborators over a run.
MaxFaults == 2
\* start()/stop() calls issued by the caller over a run.
MaxCalls == 3
\* Loop threads MaxCalls calls can spawn for one controller: start, stop, start, ...
MaxThreads == (MaxCalls + 1) \div 2
\* Rows the event record grows to when log_event is driven directly.
MaxRows == 4
\* Polls of the exit-clear loop before its 5 s have elapsed.
MaxExitPolls == 2

\* ------------------------------------------------------------- constants
\* config['motors']['station_speed']
StationSpeed == 60

Stations == {"S1", "S2"}
Threads == 1..MaxThreads

IDLE == "idle"
ADVANCING_TO_PROCESS == "advancing_to_process"
PROCESSING == "processing"
ADVANCING_TO_EXIT == "advancing_to_exit"
EXITING == "exiting"
StationState == {IDLE, ADVANCING_TO_PROCESS, PROCESSING, ADVANCING_TO_EXIT, EXITING}

\* current_part = None, tag_uid = None
NoPart == "None"
NoTag == "None"
\* identifiers a tag read can return, and the fallback "P<millis % 10000>"
TagIds == {"T1"}
GenIds == {"P7"}

ENTER == "ENTER"
EXIT == "EXIT"
ERROR_TIMEOUT_PROCESS == "ERROR_TIMEOUT_PROCESS"
ERROR_TIMEOUT_EXIT == "ERROR_TIMEOUT_EXIT"
NoAct == "-"
Terminal == {EXIT, ERROR_TIMEOUT_PROCESS, ERROR_TIMEOUT_EXIT}

\* Places where a collaborator can raise.
AllFaults == {"sensor", "tag", "part", "log", "event", "motor"}
\* Sensor queries, sensor waits and tag reads only.
EnvFaults == {"sensor", "tag"}
\* Everything but the motor commands.
NonMotorFaults == AllFaults \ {"motor"}
NoFaults == {}

VARIABLES
    state,          \* self.state of each controller
    current_part,   \* self.current_part: the part_id of the owned Part, or NoPart
    running,        \* self.running
    stop_event,     \* self.stop_event.is_set()
    thread,         \* self.thread: index of the last thread spawned, 0 = None
    motor,          \* speed last commanded to the station's motor, 0 = stopped
    thr,            \* thr[s][t]: loop thread t of station s
    lock,           \* DataLogger.lock: <<station, thread>> of the holder, or Free
    rows,           \* data rows of the event record: <<station_id, part_id, activity>>
    kpis,           \* DataLogger.kpis
    snapshot,       \* the dictionary the last get_kpis() returned
    calls_done,     \* log_event calls that have returned normally
    caller,         \* where the thread calling start()/stop() is
    ncalls,         \* start()/stop() calls issued
    stopped,        \* stop() has returned on a running controller, no start() since
    supply,         \* parts not yet presented to an entry sensor and identified
    faults,         \* exceptions raised by collaborators
    HARDWARE_AVAILABLE, \* sensor_reader.HARDWARE_AVAILABLE, set by the import
    simulation,     \* SensorReader.simulation, set by __init__
    mcp,            \* SensorReader.mcp is an expander object (FALSE: None)
    mcp_pins,       \* names stored in SensorReader.mcp_pins
    init,           \* the running SensorReader.__init__: position, argument, locals
    hw_steps        \* calls into the hardware libraries made by __init__

stationVars == <<state, current_part, motor>>
lifeVars == <<running, stop_event, thread, caller, ncalls, stopped>>
logVars == <<lock, rows, kpis, calls_done>>
readerVars == <<HARDWARE_AVAILABLE, simulation, mcp, mcp_pins, init, hw_steps>>
lineVars == <<state, current_part, running, stop_event, thread, motor, thr, lock, rows,
              kpis, snapshot, calls_done, caller, ncalls, stopped, supply, faults>>
vars == <<state, current_part, running, stop_event, thread, motor, thr, lock, rows,
          kpis, snapshot, calls_done, caller, ncalls, stopped, supply, faults,
          HARDWARE_AVAILABLE, simulation, mcp, mcp_pins, init, hw_steps>>

\* sensor_reader is not imported yet and no SensorReader.__init__ has been
\* called.
NotCalled == [pc |-> "import", arg |-> FALSE, i |-> 0, exc |-> "none"]

Free == <<"free", 0>>

Local(pc) == [pc |-> pc, uid |-> NoTag, after |-> FALSE, trig |-> FALSE, polls |-> 0,
              act |-> NoAct, pid |-> NoPart, ret |-> <<"none", "none">>, exc |-> "none"]

Dead == <<"none", "dead">>
AtLoop == <<"run", "loop">>
AtExcept == <<"run", "except">>
Done == <<"run", "done">>
Crashed == <<"run", "crashed">>
\* A station thread outside log_event, about to call it.
Ready == <<"caller", "ready">>

\* station_num == 1 ? +speed : -speed
MotorSpeed(s) == IF s = "S1" THEN StationSpeed ELSE 0 - StationSpeed

KpiZero == [total_parts |-> 0, station1_count |-> 0, station2_count |-> 0]

\* The system after construction, with n parts to come; first is where thread 1
\* of every station is (Dead: no thread yet).
InitWith(n, first) ==
    /\ state = [s \in Stations |-> IDLE]
    /\ current_part = [s \in Stations |-> NoPart]
    /\ running = [s \in Stations |-> FALSE]
    /\ stop_event = [s \in Stations |-> FALSE]
    /\ thread = [s \in Stations |-> 0]
    /\ motor = [s \in Stations |-> 0]
    /\ thr = [s \in Stations |-> [t \in Threads |-> Local(IF t = 1 THEN first ELSE Dead)]]
    /\ lock = Free
    /\ rows = <<>>
    /\ kpis = KpiZero
    /\ snapshot = KpiZero
    /\ calls_done = 0
    /\ caller = [pc |-> "idle", s |-> "S1"]
    /\ ncalls = 0
    /\ stopped = [s \in Stations |-> FALSE]
    /\ supply = n
    /\ faults = 0
    /\ HARDWARE_AVAILABLE = FALSE
    /\ simulation = FALSE
    /\ mcp = FALSE
    /\ mcp_pins = {}
    /\ init = NotCalled
    /\ hw_steps = 0

Init == InitWith(MaxLifeParts, Dead)
InitLine == InitWith(MaxParts, Dead)
InitLogger == InitWith(0, Ready)

\* What a call into a collaborator at a place of kind k can do.
Outcomes(k, F) == IF k \in F /\ faults < MaxFaults THEN {"ok", "raise"} ELSE {"ok"}

At(s, t, pc) == thr[s][t].pc = pc
Goto(s, t, pc) == thr' = [thr EXCEPT ![s][t] = Local(pc)]

\* An exception leaves the handler for the except clause of _run, which holds
\* it as e; k is the call that raised it.  Raised by a collaborator it counts
\* against MaxFaults; Throw is the AttributeError of None.part_id.
Raise(s, t, k) == /\ thr' = [thr EXCEPT ![s][t] = [Local(AtExcept) EXCEPT !.exc = k]]
                  /\ faults' = faults + 1
Throw(s, t) == /\ thr' = [thr EXCEPT ![s][t] = [Local(AtExcept) EXCEPT !.exc = "attribute"]]
               /\ UNCHANGED faults

\* ------------------------------------------------------------------ _run
\* The handler _run dispatches to for a state.
Dispatch(st) ==
    CASE st = IDLE -> <<"idle", "entry">>
      [] st = ADVANCING_TO_PROCESS -> <<"atp", "start">>
      [] st = PROCESSING -> <<"proc", "dwell">>
      [] st = ADVANCING_TO_EXIT -> <<"ate", "start">>
      [] st = EXITING -> <<"ex", "start">>

\* while self.running and not self.stop_event.is_set()
RunsRegardless(s) == TRUE
KeepsRunning(s) == running[s] /\ ~stop_event[s]

\* The loop test and the dispatch on self.state; a handler that returns comes
\* back here after the 50 ms sleep.
LoopCheck(s, t) ==
    /\ At(s, t, AtLoop)
    /\ Goto(s, t, IF KeepsRunning(s) THEN Dispatch(state[s]) ELSE Done)
    /\ UNCHANGED <<stationVars, lifeVars, logVars, snapshot, supply, faults>>

\* Except without motors.stop: the error is logged and the loop goes on.
ExceptKeepsMotor(s, t, F) ==
    /\ At(s, t, AtExcept)
    /\ Goto(s, t, AtLoop)
    /\ UNCHANGED <<stationVars, lifeVars, logVars, snapshot, supply, faults>>

\* except Exception: motors.stop, sleep 1 s, back to the loop test.  An
\* exception of motors.stop itself leaves _run: the thread ends.
Except(s, t, F) ==
    /\ At(s, t, AtExcept)
    /\ \E o \in Outcomes("motor", F) :
          IF o = "raise"
          THEN /\ Goto(s, t, Crashed)
               /\ faults' = faults + 1
               /\ UNCHANGED motor
          ELSE /\ Goto(s, t, AtLoop)
               /\ motor' = [motor EXCEPT ![s] = 0]
               /\ UNCHANGED faults
    /\ UNCHANGED <<state, current_part, lifeVars, logVars, snapshot, supply>>

\* ----------------------------------------------------------- _state_idle
\* Readings the entry sensor can give: parts are presented while the run's
\* supply of parts lasts.
EntryReadings == IF supply > 0 THEN BOOLEAN ELSE {FALSE}

\* entry_sensor_check = self.sensors.stationN_entry(); if entry_sensor_check:
IdleEntry(s, t, F) ==
    /\ At(s, t, <<"idle", "entry">>)
    /\ \E o \in Outcomes("sensor", F), entry \in EntryReadings :
          IF o = "raise" THEN Raise(s, t, "sensor")
          ELSE /\ Goto(s, t, IF entry THEN <<"idle", "tag">> ELSE AtLoop)
               /\ UNCHANGED faults
    /\ UNCHANGED <<stationVars, lifeVars, logVars, snapshot, supply>>

\* tag_uid = self.nfc.read_tag(timeout=2.0)
IdleReadTag(s, t, F) ==
    /\ At(s, t, <<"idle", "tag">>)
    /\ \E o \in Outcomes("tag", F), uid \in TagIds \cup {NoTag} :
          IF o = "raise" THEN Raise(s, t, "tag")
          ELSE /\ thr' = [thr EXCEPT ![s][t] = [Local(<<"idle", "recheck">>) EXCEPT !.uid = uid]]
               /\ UNCHANGED faults
    /\ UNCHANGED <<stationVars, lifeVars, logVars, snapshot, supply>>

\* entry_sensor_check_after = self.sensors.stationN_entry()
IdleRecheck(s, t, F) ==
    /\ At(s, t, <<"idle", "recheck">>)
    /\ \E o \in Outcomes("sensor", F), after \in EntryReadings :
          IF o = "raise" THEN Raise(s, t, "sensor")
          ELSE /\ thr' = [thr EXCEPT ![s][t].pc = <<"idle", "identify">>, ![s][t].after = after]
               /\ UNCHANGED faults
    /\ UNCHANGED <<stationVars, lifeVars, logVars, snapshot, supply>>

\* Disappeared without the re-check: the first reading is trusted.
NeverDisappeared(after) == FALSE

\* if not entry_sensor_check_after: return
Disappeared(after) == ~after

\* The part_id of Part(tag_uid), or of Part("P<millis % 10000>") without a tag.
PartIds(uid) == IF uid # NoTag THEN {uid} ELSE GenIds

\* The re-check's branch; then Part(...) is constructed, stored in
\* self.current_part, and log_event(part_id, station_id, "ENTER") is called.
IdleIdentify(s, t, F) ==
    /\ At(s, t, <<"idle", "identify">>)
    /\ IF Disappeared(thr[s][t].after)
       THEN /\ Goto(s, t, AtLoop)
            /\ UNCHANGED <<current_part, supply, faults>>
       ELSE \E o \in Outcomes("part", F), id \in PartIds(thr[s][t].uid) :
               IF o = "raise"
               THEN /\ Raise(s, t, "part")
                    /\ UNCHANGED <<current_part, supply>>
               ELSE /\ current_part' = [current_part EXCEPT ![s] = id]
                    /\ supply' = IF supply > 0 THEN supply - 1 ELSE 0
                    /\ thr' = [thr EXCEPT ![s][t] =
                                 [Local(<<"log", "acquire">>) EXCEPT
                                    !.act = ENTER, !.pid = id, !.ret = <<"idle", "add">>]]
                    /\ UNCHANGED faults
    /\ UNCHANGED <<state, motor, lifeVars, logVars, snapshot>>

\* self.current_part.add_event(...): AttributeError when current_part is None.
AddEvent(s, F) == IF current_part[s] = NoPart THEN {"error"} ELSE Outcomes("event", F)

\* self.current_part.add_event(station_id, "ENTER"); state = ADVANCING_TO_PROCESS
IdleAddEvent(s, t, F) ==
    /\ At(s, t, <<"idle", "add">>)
    /\ \E o \in AddEvent(s, F) :
          CASE o = "raise" -> Raise(s, t, "event") /\ UNCHANGED state
            [] o = "error" -> Throw(s, t) /\ UNCHANGED state
            [] o = "ok" -> /\ state' = [state EXCEPT ![s] = ADVANCING_TO_PROCESS]
                           /\ Goto(s, t, AtLoop)
                           /\ UNCHANGED faults
    /\ UNCHANGED <<current_part, motor, lifeVars, logVars, snapshot, supply>>

\* ------------------------------------------------- DataLogger.log_event
\* LockAvailable without the lock: log_event enters at once.
LockIgnored == TRUE

\* with self.lock: the lock can be taken.
LockAvailable == lock = Free

\* CountsAsPart counting every activity.
CountsAnyActivity(activity) == TRUE

\* if activity == "EXIT"
CountsAsPart(activity) == activity = EXIT

\* with self.lock: (acquire)
LogAcquire(s, t) ==
    /\ At(s, t, <<"log", "acquire">>)
    /\ LockAvailable
    /\ lock' = <<s, t>>
    /\ thr' = [thr EXCEPT ![s][t].pc = <<"log", "write">>]
    /\ UNCHANGED <<stationVars, lifeVars, rows, kpis, calls_done, snapshot, supply, faults>>

\* open(log_file, 'a'); writer.writerow([timestamp, station_id, part_id,
\* activity]); close.  The row reaches the file as one append when the file is
\* closed; a failure of open or of the write raises out of the with block,
\* which releases the lock.
LogWrite(s, t, F) ==
    /\ At(s, t, <<"log", "write">>)
    /\ \E o \in Outcomes("log", F) :
          IF o = "raise"
          THEN /\ Raise(s, t, "log")
               /\ lock' = Free
               /\ UNCHANGED rows
          ELSE /\ rows' = Append(rows, <<s, thr[s][t].pid, thr[s][t].act>>)
               /\ thr' = [thr EXCEPT ![s][t].pc = <<"log", "kpis">>]
               /\ UNCHANGED <<lock, faults>>
    /\ UNCHANGED <<stationVars, lifeVars, kpis, calls_done, snapshot, supply>>

\* _update_kpis: if activity == "EXIT": kpis['total_parts'] += 1; any other
\* activity changes nothing and log_event returns, releasing the lock.
LogUpdateTotal(s, t) ==
    /\ At(s, t, <<"log", "kpis">>)
    /\ IF CountsAsPart(thr[s][t].act)
       THEN /\ kpis' = [kpis EXCEPT !.total_parts = @ + 1]
            /\ thr' = [thr EXCEPT ![s][t].pc = <<"log", "station">>]
            /\ UNCHANGED <<lock, calls_done>>
       ELSE /\ Goto(s, t, thr[s][t].ret)
            /\ lock' = Free
            /\ calls_done' = calls_done + 1
            /\ UNCHANGED kpis
    /\ UNCHANGED <<stationVars, lifeVars, rows, snapshot, supply, faults>>

\* if station_id == "S1": station1_count += 1 elif "S2": station2_count += 1;
\* log_event returns, releasing the lock.
LogUpdateStation(s, t) ==
    /\ At(s, t, <<"log", "station">>)
    /\ kpis' = IF s = "S1" THEN [kpis EXCEPT !.station1_count = @ + 1]
               ELSE [kpis EXCEPT !.station2_count = @ + 1]
    /\ Goto(s, t, thr[s][t].ret)
    /\ lock' = Free
    /\ calls_done' = calls_done + 1
    /\ UNCHANGED <<stationVars, lifeVars, rows, snapshot, supply, faults>>

Activities == {ENTER, EXIT, ERROR_TIMEOUT_PROCESS, ERROR_TIMEOUT_EXIT}

\* A station thread calls log_event(part_id, station_id, activity) while the
\* record has room for the row.
LogEvent(s, t) ==
    /\ At(s, t, Ready)
    /\ Len(rows) + Cardinality({u \in Stations : thr[u][t].pc \in
                                   {<<"log", "acquire">>, <<"log", "write">>}}) < MaxRows
    /\ \E id \in TagIds, act \in Activities :
          thr' = [thr EXCEPT ![s][t] =
                    [Local(<<"log", "acquire">>) EXCEPT !.act = act, !.pid = id, !.ret = Ready]]
    /\ UNCHANGED <<stationVars, lifeVars, logVars, snapshot, supply, faults>>

\* get_kpis: return self.kpis.copy()  (no lock is taken)
GetKpis ==
    /\ snapshot' = kpis
    /\ UNCHANGED <<stationVars, lifeVars, logVars, thr, supply, faults>>

\* log_event(self.current_part.part_id, self.station_id, act): evaluating
\* self.current_part.part_id raises AttributeError when current_part is None.
CallLog(s, t, act, ret) ==
    IF current_part[s] = NoPart
    THEN Throw(s, t)
    ELSE /\ thr' = [thr EXCEPT ![s][t] =
                      [Local(<<"log", "acquire">>) EXCEPT
                         !.act = act, !.pid = current_part[s], !.ret = ret,
                         !.polls = thr[s][t].polls]]
         /\ UNCHANGED faults

\* ------------- _state_advancing_to_process (h = "atp") / _to_exit ("ate")
Advancing == {"atp", "ate"}

\* The state a triggered wait leads to, and the error a timed-out wait logs.
NextState(h) == IF h = "atp" THEN PROCESSING ELSE EXITING
\* TimeoutAct with the part recorded as completed.
TimeoutLogsExit(h) == EXIT
TimeoutAct(h) == IF h = "atp" THEN ERROR_TIMEOUT_PROCESS ELSE ERROR_TIMEOUT_EXIT

\* self.motors.set_speed(self.motor_num, self.motor_speed)
AdvStart(s, t, h, F) ==
    /\ At(s, t, <<h, "start">>)
    /\ \E o \in Outcomes("motor", F) :
          IF o = "raise" THEN Raise(s, t, "motor") /\ UNCHANGED motor
          ELSE /\ motor' = [motor EXCEPT ![s] = MotorSpeed(s)]
               /\ Goto(s, t, <<h, "wait">>)
               /\ UNCHANGED faults
    /\ UNCHANGED <<state, current_part, lifeVars, logVars, snapshot, supply>>

\* What SensorReader.wait_for_pi(pin, timeout) returns: True when the sensor
\* triggered within the timeout, False when the timeout passed.  The call
\* returns after at most timeout seconds.
WaitForPi == BOOLEAN

\* sensor_triggered = self.sensors.wait_for_pi(STATIONn_PROCESS/EXIT, timeout=10)
AdvWait(s, t, h, F) ==
    /\ At(s, t, <<h, "wait">>)
    /\ \E o \in Outcomes("sensor", F), trig \in WaitForPi :
          IF o = "raise" THEN Raise(s, t, "sensor")
          ELSE /\ thr' = [thr EXCEPT ![s][t].pc = <<h, "stop">>, ![s][t].trig = trig]
               /\ UNCHANGED faults
    /\ UNCHANGED <<stationVars, lifeVars, logVars, snapshot, supply>>

\* self.motors.stop(self.motor_num); if sensor_triggered: state = next state;
\* else: log_event(..., "ERROR_TIMEOUT_...")
AdvStop(s, t, h, F) ==
    /\ At(s, t, <<h, "stop">>)
    /\ \E o \in Outcomes("motor", F) :
          IF o = "raise" THEN Raise(s, t, "motor") /\ UNCHANGED <<motor, state>>
          ELSE /\ motor' = [motor EXCEPT ![s] = 0]
               /\ IF thr[s][t].trig
                  THEN /\ state' = [state EXCEPT ![s] = NextState(h)]
                       /\ Goto(s, t, AtLoop)
                       /\ UNCHANGED faults
                  ELSE /\ CallLog(s, t, TimeoutAct(h), <<h, "abandon">>)
                       /\ UNCHANGED state
    /\ UNCHANGED <<current_part, lifeVars, logVars, snapshot, supply>>

\* AdvAbandon with the two resets forgotten: the part is kept, the state stays.
AdvAbandonRetry(s, t, h) ==
    /\ At(s, t, <<h, "abandon">>)
    /\ Goto(s, t, AtLoop)
    /\ UNCHANGED <<stationVars, lifeVars, logVars, snapshot, supply, faults>>

\* self.current_part = None; self.state = StationState.IDLE
AdvAbandon(s, t, h) ==
    /\ At(s, t, <<h, "abandon">>)
    /\ current_part' = [current_part EXCEPT ![s] = NoPart]
    /\ state' = [state EXCEPT ![s] = IDLE]
    /\ Goto(s, t, AtLoop)
    /\ UNCHANGED <<motor, lifeVars, logVars, snapshot, supply, faults>>

\* ----------------------------------------------------- _state_processing
\* time.sleep(self.process_time); self.state = ADVANCING_TO_EXIT
Processing(s, t) ==
    /\ At(s, t, <<"proc", "dwell">>)
    /\ state' = [state EXCEPT ![s] = ADVANCING_TO_EXIT]
    /\ Goto(s, t, AtLoop)
    /\ UNCHANGED <<current_part, motor, lifeVars, logVars, snapshot, supply, faults>>

\* -------------------------------------------------------- _state_exiting
\* self.motors.set_speed(self.motor_num, self.motor_speed); start_time = now
ExStart(s, t, F) ==
    /\ At(s, t, <<"ex", "start">>)
    /\ \E o \in Outcomes("motor", F) :
          IF o = "raise" THEN Raise(s, t, "motor") /\ UNCHANGED motor
          ELSE /\ motor' = [motor EXCEPT ![s] = MotorSpeed(s)]
               /\ Goto(s, t, <<"ex", "poll">>)
               /\ UNCHANGED faults
    /\ UNCHANGED <<state, current_part, lifeVars, logVars, snapshot, supply>>

\* ExitWaitOpen without the timeout: the loop ends only on a clear sensor.
ExitWaitForever(polls) == TRUE

\* while time.time() - start_time < timeout: every pass sleeps 0.1 s, so the
\* 5 s are over after a bounded number of polls.
ExitWaitOpen(polls) == polls < MaxExitPolls

\* One pass of the loop: if not exit_sensor(): sleep 0.5; break; else sleep
\* 0.1.  The loop is left when the sensor reads false or the time is over;
\* polls counts the passes, within 0..MaxExitPolls, and is MaxExitPolls after
\* the loop exactly when the time was over.
ExPoll(s, t, F) ==
    /\ At(s, t, <<"ex", "poll">>)
    /\ IF ExitWaitOpen(thr[s][t].polls)
       THEN \E o \in Outcomes("sensor", F), blocked \in BOOLEAN :
               IF o = "raise" THEN Raise(s, t, "sensor")
               ELSE /\ thr' = IF blocked
                              THEN [thr EXCEPT ![s][t].polls = (@ + 1) % (MaxExitPolls + 1)]
                              ELSE [thr EXCEPT ![s][t].pc = <<"ex", "stop">>]
                    /\ UNCHANGED faults
       ELSE /\ thr' = [thr EXCEPT ![s][t].pc = <<"ex", "stop">>]
            /\ UNCHANGED faults
    /\ UNCHANGED <<stationVars, lifeVars, logVars, snapshot, supply>>

\* OwnsPart finding no part: the EXIT row is skipped.
OwnsNothing(s) == FALSE

\* if self.current_part:
OwnsPart(s) == current_part[s] # NoPart

\* self.motors.stop(self.motor_num); if self.current_part: log_event(...,
\* "EXIT"); without a part: current_part = None, state = IDLE.
ExStop(s, t, F) ==
    /\ At(s, t, <<"ex", "stop">>)
    /\ \E o \in Outcomes("motor", F) :
          IF o = "raise" THEN Raise(s, t, "motor") /\ UNCHANGED <<motor, state>>
          ELSE /\ motor' = [motor EXCEPT ![s] = 0]
               /\ IF OwnsPart(s)
                  THEN /\ CallLog(s, t, EXIT, <<"ex", "add">>)
                       /\ UNCHANGED state
                  ELSE /\ state' = [state EXCEPT ![s] = IDLE]
                       /\ Goto(s, t, AtLoop)
                       /\ UNCHANGED faults
    /\ UNCHANGED <<current_part, lifeVars, logVars, snapshot, supply>>

\* self.current_part.add_event(station_id, "EXIT"); get_short_id();
\* self.current_part = None; self.state = StationState.IDLE
ExAddEvent(s, t, F) ==
    /\ At(s, t, <<"ex", "add">>)
    /\ \E o \in AddEvent(s, F) :
          CASE o = "raise" -> Raise(s, t, "event") /\ UNCHANGED <<state, current_part>>
            [] o = "error" -> Throw(s, t) /\ UNCHANGED <<state, current_part>>
            [] o = "ok" -> /\ current_part' = [current_part EXCEPT ![s] = NoPart]
                           /\ state' = [state EXCEPT ![s] = IDLE]
                           /\ Goto(s, t, AtLoop)
                           /\ UNCHANGED faults
    /\ UNCHANGED <<motor, lifeVars, logVars, snapshot, supply>>

\* ----------------------------------------------------------- start / stop
\* AlreadyRunning without the guard: start() always spawns.
NeverRunning(s) == FALSE

\* if self.running: return
AlreadyRunning(s) == running[s]

\* Start with a reset: a controller that is started begins in IDLE with no part.
StartFromIdle(s) ==
    /\ caller.pc = "idle"
    /\ ncalls < MaxCalls
    /\ ~running[s]
    /\ thread[s] < MaxThreads
    /\ ncalls' = ncalls + 1
    /\ running' = [running EXCEPT ![s] = TRUE]
    /\ stop_event' = [stop_event EXCEPT ![s] = FALSE]
    /\ thread' = [thread EXCEPT ![s] = @ + 1]
    /\ thr' = [thr EXCEPT ![s][thread[s] + 1] = Local(AtLoop)]
    /\ stopped' = [stopped EXCEPT ![s] = FALSE]
    /\ state' = [state EXCEPT ![s] = IDLE]
    /\ current_part' = [current_part EXCEPT ![s] = NoPart]
    /\ UNCHANGED <<motor, logVars, snapshot, caller, supply, faults>>

\* start(): nothing when already running; else running = True,
\* stop_event.clear(), self.thread = Thread(target=self._run); thread.start()
Start(s) ==
    /\ caller.pc = "idle"
    /\ ncalls < MaxCalls
    /\ ncalls' = ncalls + 1
    /\ IF AlreadyRunning(s)
       THEN UNCHANGED <<running, stop_event, thread, thr, stopped>>
       ELSE /\ thread[s] < MaxThreads
            /\ running' = [running EXCEPT ![s] = TRUE]
            /\ stop_event' = [stop_event EXCEPT ![s] = FALSE]
            /\ thread' = [thread EXCEPT ![s] = @ + 1]
            /\ thr' = [thr EXCEPT ![s][thread[s] + 1] = Local(AtLoop)]
            /\ stopped' = [stopped EXCEPT ![s] = FALSE]
    /\ UNCHANGED <<stationVars, logVars, snapshot, caller, supply, faults>>

\* if not self.running: return
NotRunning(s) == ~running[s]

\* stop(): nothing when not running; else running = False, stop_event.set()
StopBegin(s) ==
    /\ caller.pc = "idle"
    /\ ncalls < MaxCalls
    /\ ncalls' = ncalls + 1
    /\ IF NotRunning(s)
       THEN UNCHANGED <<running, stop_event, caller>>
       ELSE /\ running' = [running EXCEPT ![s] = FALSE]
            /\ stop_event' = [stop_event EXCEPT ![s] = TRUE]
            /\ caller' = [pc |-> "join", s |-> s]
    /\ UNCHANGED <<stationVars, logVars, snapshot, thread, thr, stopped, supply, faults>>

\* if self.thread: self.thread.join(timeout=2): returns when the thread has
\* ended, or after 2 s with the thread still at any place of its loop.
StopJoin(s) ==
    /\ caller = [pc |-> "join", s |-> s]
    /\ caller' = [pc |-> "halt", s |-> s]
    /\ UNCHANGED <<stationVars, logVars, snapshot, running, stop_event, thread, thr,
                   ncalls, stopped, supply, faults>>

\* self.motors.stop(self.motor_num); stop() returns (or the exception of
\* motors.stop leaves it).
StopMotor(s, F) ==
    /\ caller = [pc |-> "halt", s |-> s]
    /\ caller' = [pc |-> "idle", s |-> "S1"]
    /\ \E o \in Outcomes("motor", F) :
          IF o = "raise"
          THEN /\ faults' = faults + 1
               /\ UNCHANGED <<motor, stopped>>
          ELSE /\ motor' = [motor EXCEPT ![s] = 0]
               /\ stopped' = [stopped EXCEPT ![s] = TRUE]
               /\ UNCHANGED faults
    /\ UNCHANGED <<state, current_part, logVars, snapshot, running, stop_event, thread,
                   thr, ncalls, supply>>

\* -------------------------------------------------------- specifications
\* One step of loop thread t of station s, collaborators raising as F allows.
ThreadStep(s, t, F) ==
    \/ LoopCheck(s, t)
    \/ IdleEntry(s, t, F)
    \/ IdleReadTag(s, t, F)
    \/ IdleRecheck(s, t, F)
    \/ IdleIdentify(s, t, F)
    \/ IdleAddEvent(s, t, F)
    \/ LogAcquire(s, t)
    \/ LogWrite(s, t, F)
    \/ LogUpdateTotal(s, t)
    \/ LogUpdateStation(s, t)
    \/ \E h \in Advancing : AdvStart(s, t, h, F)
    \/ \E h \in Advancing : AdvWait(s, t, h, F)
    \/ \E h \in Advancing : AdvStop(s, t, h, F)
    \/ \E h \in Advancing : AdvAbandon(s, t, h)
    \/ Processing(s, t)
    \/ ExStart(s, t, F)
    \/ ExPoll(s, t, F)
    \/ ExStop(s, t, F)
    \/ ExAddEvent(s, t, F)

\* No controller but s has ever been started.
Only(s) == \A o \in Stations \ {s} : thread[o] = 0

\* start() on a controller that has never been started.
Launch(s) == thread[s] = 0 /\ Start(s)

\* One controller under start() and stop() in any order, with join timing out
\* or not; no collaborator raises.
Next ==
    \/ \E s \in Stations, t \in Threads : ThreadStep(s, t, NoFaults) /\ UNCHANGED readerVars
    \/ \E s \in Stations, t \in Threads : Except(s, t, NoFaults) /\ UNCHANGED readerVars
    \/ \E s \in Stations : Only(s) /\ Start(s) /\ UNCHANGED readerVars
    \/ \E s \in Stations : Only(s) /\ StopBegin(s) /\ UNCHANGED readerVars
    \/ \E s \in Stations : StopJoin(s) /\ UNCHANGED readerVars
    \/ \E s \in Stations : StopMotor(s, NoFaults) /\ UNCHANGED readerVars

Spec == Init /\ [][Next]_vars

\* One controller, started once and left running; every collaborator can raise.
NextFaults ==
    \/ \E s \in Stations, t \in Threads : ThreadStep(s, t, AllFaults) /\ UNCHANGED readerVars
    \/ \E s \in Stations, t \in Threads : Except(s, t, AllFaults) /\ UNCHANGED readerVars
    \/ \E s \in Stations : Only(s) /\ Launch(s) /\ UNCHANGED readerVars

SpecFaults == InitLine /\ [][NextFaults]_vars

\* One controller, started once; sensors, waits and tag reads answer
\* anything, raising included; nothing else raises.
NextTransit ==
    \/ \E s \in Stations, t \in Threads : ThreadStep(s, t, EnvFaults) /\ UNCHANGED readerVars
    \/ \E s \in Stations, t \in Threads : Except(s, t, EnvFaults) /\ UNCHANGED readerVars
    \/ \E s \in Stations : Only(s) /\ Launch(s) /\ UNCHANGED readerVars

SpecTransit == InitLine /\ [][NextTransit]_vars

\* One controller, started once; every collaborator but the motor driver can
\* raise: set_speed and motors.stop always take effect.
NextMotorOk ==
    \/ \E s \in Stations, t \in Threads : ThreadStep(s, t, NonMotorFaults) /\ UNCHANGED readerVars
    \/ \E s \in Stations, t \in Threads : Except(s, t, NonMotorFaults) /\ UNCHANGED readerVars
    \/ \E s \in Stations : Only(s) /\ Launch(s) /\ UNCHANGED readerVars

SpecMotorOk == InitLine /\ [][NextMotorOk]_vars

\* The DataLogger under one thread per station, each calling log_event over
\* and over with any part and activity, and get_kpis() called at any moment.
NextLogger ==
    \/ \E s \in Stations : LogEvent(s, 1) /\ UNCHANGED readerVars
    \/ \E s \in Stations : LogAcquire(s, 1) /\ UNCHANGED readerVars
    \/ \E s \in Stations : LogWrite(s, 1, NoFaults) /\ UNCHANGED readerVars
    \/ \E s \in Stations : LogUpdateTotal(s, 1) /\ UNCHANGED readerVars
    \/ \E s \in Stations : LogUpdateStation(s, 1) /\ UNCHANGED readerVars
    \/ GetKpis /\ UNCHANGED readerVars

SpecLogger == InitLogger /\ [][NextLogger]_vars

\* One controller, started once and never stopped, nothing raising; its loop
\* thread is scheduled fairly.
NextLive ==
    \/ \E s \in Stations, t \in Threads : ThreadStep(s, t, NoFaults) /\ UNCHANGED readerVars
    \/ \E s \in Stations : Only(s) /\ Launch(s) /\ UNCHANGED readerVars

SpecLive ==
    /\ InitLine
    /\ [][NextLive]_vars
    /\ \A s \in Stations :
        WF_vars(\E t \in Threads : ThreadStep(s, t, NoFaults) /\ UNCHANGED readerVars)

\* One controller, started once and stopped at any moment, join timing out or
\* not, never started again; every collaborator can raise; its loop thread
\* is scheduled fairly, in its handlers and in the except clause of _run.
LoopStep(s) ==
    \E t \in Threads :
       (ThreadStep(s, t, AllFaults) \/ Except(s, t, AllFaults)) /\ UNCHANGED readerVars

NextStop ==
    \/ \E s \in Stations, t \in Threads : ThreadStep(s, t, AllFaults) /\ UNCHANGED readerVars
    \/ \E s \in Stations, t \in Threads : Except(s, t, AllFaults) /\ UNCHANGED readerVars
    \/ \E s \in Stations : Only(s) /\ Launch(s) /\ UNCHANGED readerVars
    \/ \E s \in Stations : Only(s) /\ StopBegin(s) /\ UNCHANGED readerVars
    \/ \E s \in Stations : StopJoin(s) /\ UNCHANGED readerVars
    \/ \E s \in Stations : StopMotor(s, AllFaults) /\ UNCHANGED readerVars

SpecStop ==
    /\ InitLine
    /\ [][NextStop]_vars
    /\ \A s \in Stations : WF_vars(LoopStep(s))

\* ------------------------------------------------------------ SensorReader
\* PI_PINS: the ten inputs on the Pi's own GPIO header, in list order.
PI_PINS == <<17, 27, 22, 5, 6, 13, 21, 12, 0, 1>>

\* MCP_PIN_MAP: the eight expander inputs, in dictionary order.
MCP_PIN_MAP == << <<"CORNER1_RET", 0>>, <<"CORNER2_RET", 1>>, <<"CORNER3_RET", 2>>,
                  <<"CORNER4_RET", 3>>, <<"CORNER1_EXT", 4>>, <<"CORNER2_EXT", 5>>,
                  <<"CORNER3_EXT", 6>>, <<"CORNER4_EXT", 7>> >>

\* What a call into RPi.GPIO, busio, the MCP23017 driver or digitalio can do.
HwOutcomes == {"ok", "raise"}

\* self.simulation = simulation or not HARDWARE_AVAILABLE
SimulationIfRequested(requested, available) == requested
SimulationMode(requested, available) == requested \/ ~available

\* The import block at module load: any of the five imports can fail with
\* ImportError, NotImplementedError or RuntimeError.
ImportLibraries ==
    /\ init.pc = "import"
    /\ \E o \in HwOutcomes : HARDWARE_AVAILABLE' = (o = "ok")
    /\ init' = [init EXCEPT !.pc = "none"]
    /\ UNCHANGED <<simulation, mcp, mcp_pins, hw_steps>>

\* SensorReader(simulation=requested), up to the test of self.simulation.
Construct(requested) ==
    /\ init.pc = "none"
    /\ simulation' = SimulationMode(requested, HARDWARE_AVAILABLE)
    /\ mcp' = FALSE
    /\ mcp_pins' = {}
    /\ init' = [init EXCEPT !.arg = requested,
                            !.pc = IF simulation' THEN "log_simulation" ELSE "setmode"]
    /\ UNCHANGED <<HARDWARE_AVAILABLE, hw_steps>>

\* The else branch: logger.info("Running in SIMULATION mode").
LogSimulation ==
    /\ init.pc = "log_simulation"
    /\ init' = [init EXCEPT !.pc = "done"]
    /\ UNCHANGED <<HARDWARE_AVAILABLE, simulation, mcp, mcp_pins, hw_steps>>

\* One call into a hardware library inside the try block at position pc:
\* it returns and __init__ goes on at next, or it raises and control goes to
\* the except clause.
HwCall(pc, next) ==
    /\ init.pc = pc
    /\ hw_steps' = hw_steps + 1
    /\ \E o \in HwOutcomes :
        init' = IF o = "ok" THEN [init EXCEPT !.pc = next]
                ELSE [init EXCEPT !.pc = "except", !.exc = "Exception"]

\* GPIO.setmode(GPIO.BCM)
SetMode ==
    /\ HwCall("setmode", "setwarnings")
    /\ UNCHANGED <<HARDWARE_AVAILABLE, simulation, mcp, mcp_pins>>

\* GPIO.setwarnings(False); then the loop over PI_PINS starts.
SetWarnings ==
    /\ init.pc = "setwarnings"
    /\ hw_steps' = hw_steps + 1
    /\ \E o \in HwOutcomes :
        init' = IF o = "ok" THEN [init EXCEPT !.pc = "setup", !.i = 1]
                ELSE [init EXCEPT !.pc = "except", !.exc = "Exception"]
    /\ UNCHANGED <<HARDWARE_AVAILABLE, simulation, mcp, mcp_pins>>

\* GPIO.setup(pin, GPIO.IN, pull_up_down=GPIO.PUD_UP) for the next pin of
\* PI_PINS; after the last one the count is logged.
SetupPin ==
    /\ init.pc = "setup"
    /\ hw_steps' = hw_steps + 1
    /\ \E o \in HwOutcomes :
        init' = IF o = "raise" THEN [init EXCEPT !.pc = "except", !.exc = "Exception"]
                ELSE IF init.i < Len(PI_PINS) THEN [init EXCEPT !.i = init.i + 1]
                ELSE [init EXCEPT !.pc = "i2c", !.i = 0]
    /\ UNCHANGED <<HARDWARE_AVAILABLE, simulation, mcp, mcp_pins>>

\* i2c = busio.I2C(board.SCL, board.SDA)
OpenI2C ==
    /\ HwCall("i2c", "mcp")
    /\ UNCHANGED <<HARDWARE_AVAILABLE, simulation, mcp, mcp_pins>>

\* self.mcp = MCP23017(i2c); then the loop over MCP_PIN_MAP starts.
CreateExpander ==
    /\ init.pc = "mcp"
    /\ hw_steps' = hw_steps + 1
    /\ \E o \in HwOutcomes :
        /\ init' = IF o = "ok" THEN [init EXCEPT !.pc = "get_pin", !.i = 1]
                   ELSE [init EXCEPT !.pc = "except", !.exc = "Exception"]
        /\ mcp' = (o = "ok")
    /\ UNCHANGED <<HARDWARE_AVAILABLE, simulation, mcp_pins>>

\* pin = self.mcp.get_pin(pin_num)
GetPin ==
    /\ HwCall("get_pin", "direction")
    /\ UNCHANGED <<HARDWARE_AVAILABLE, simulation, mcp, mcp_pins>>

\* pin.direction = digitalio.Direction.INPUT
SetDirection ==
    /\ HwCall("direction", "pull")
    /\ UNCHANGED <<HARDWARE_AVAILABLE, simulation, mcp, mcp_pins>>

\* pin.pull = digitalio.Pull.UP
SetPull ==
    /\ HwCall("pull", "store")
    /\ UNCHANGED <<HARDWARE_AVAILABLE, simulation, mcp, mcp_pins>>

\* self.mcp_pins[name] = pin; after the last pin the count is logged and
\* __init__ returns.
StorePin ==
    /\ init.pc = "store"
    /\ mcp_pins' = mcp_pins \cup {MCP_PIN_MAP[init.i][1]}
    /\ init' = IF init.i < Len(MCP_PIN_MAP)
               THEN [init EXCEPT !.pc = "get_pin", !.i = init.i + 1]
               ELSE [init EXCEPT !.pc = "done", !.i = 0]
    /\ UNCHANGED <<HARDWARE_AVAILABLE, simulation, mcp, hw_steps>>

\* except Exception: both errors are logged and self.simulation = True.
FallBack ==
    /\ init.pc = "except"
    /\ simulation' = TRUE
    /\ init' = [init EXCEPT !.pc = "done"]
    /\ UNCHANGED <<HARDWARE_AVAILABLE, mcp, mcp_pins, hw_steps>>

\* The module is imported and one SensorReader is constructed, asked for
\* either mode, with every hardware call free to fail.
NextSensor ==
    \/ ImportLibraries /\ UNCHANGED lineVars
    \/ \E requested \in BOOLEAN : Construct(requested) /\ UNCHANGED lineVars
    \/ LogSimulation /\ UNCHANGED lineVars
    \/ SetMode /\ UNCHANGED lineVars
    \/ SetWarnings /\ UNCHANGED lineVars
    \/ SetupPin /\ UNCHANGED lineVars
    \/ OpenI2C /\ UNCHANGED lineVars
    \/ CreateExpander /\ UNCHANGED lineVars
    \/ GetPin /\ UNCHANGED lineVars
    \/ SetDirection /\ UNCHANGED lineVars
    \/ SetPull /\ UNCHANGED lineVars
    \/ StorePin /\ UNCHANGED lineVars
    \/ FallBack /\ UNCHANGED lineVars

SpecSensor == InitLine /\ [][NextSensor]_vars

\* ------------------------------------------------------------- the claims
\* The activities of the rows station s has logged, in order.
RECURSIVE ActsOf(_, _)
ActsOf(s, r) ==
    IF r = <<>> THEN <<>>
    ELSE IF Head(r)[1] = s THEN <<Head(r)[3]>> \o ActsOf(s, Tail(r))
         ELSE ActsOf(s, Tail(r))

Acts(s) == ActsOf(s, rows)
LastAct(s) == IF Acts(s) = <<>> THEN NoAct ELSE Acts(s)[Len(Acts(s))]

\* Rows with activity act, and those of them logged by station s.
CountAct(act) == Cardinality({i \in 1..Len(rows) : rows[i][3] = act})
CountActOf(s, act) == Cardinality({i \in 1..Len(rows) : rows[i][1] = s /\ rows[i][3] = act})

\* Thread t of station s is inside log_event with activity act, its row not yet written.
Logging(s, t, act) ==
    /\ thr[s][t].pc \in {<<"log", "acquire">>, <<"log", "write">>}
    /\ thr[s][t].act = act

\* Parts that passed the re-check and were constructed at station s: with one
\* controller started, all the parts taken from the supply.
Identified(s) == IF thread[s] = 0 THEN 0 ELSE MaxParts - supply

\* C1: the activities one station logs are a prefix of (ENTER, then one of
\* EXIT / ERROR_TIMEOUT_PROCESS / ERROR_TIMEOUT_EXIT) repeated, and every
\* detection that passed the re-check has exactly one ENTER row once
\* log_event has written it.
C1_TransitRows ==
    \A s \in Stations :
       /\ \A i \in 1..Len(Acts(s)) :
             IF i % 2 = 1 THEN Acts(s)[i] = ENTER ELSE Acts(s)[i] \in Terminal
       /\ CountActOf(s, ENTER) + Cardinality({t \in Threads : Logging(s, t, ENTER)})
             = Identified(s)

\* A station has logged a transit that ended with EXIT and one that timed out.
C1_Witness ==
    \E s \in Stations :
       /\ Len(Acts(s)) = 4
       /\ EXIT \in {Acts(s)[2], Acts(s)[4]}
       /\ {Acts(s)[2], Acts(s)[4]} # {EXIT}

\* C2: under fair scheduling and without stop(), a station that has left IDLE
\* comes back to IDLE with no owned part, and a last row ENTER is followed by
\* an EXIT or timeout-error row.
C2_TransitEnds ==
    \A s \in Stations :
       /\ (state[s] # IDLE) ~> (state[s] = IDLE /\ current_part[s] = NoPart)
       /\ (LastAct(s) = ENTER) ~> (LastAct(s) \in Terminal)

\* A transit is over: ENTER and EXIT logged, the station idle with no part.
C2_Witness ==
    \E s \in Stations :
       /\ Acts(s) = <<ENTER, EXIT>>
       /\ state[s] = IDLE
       /\ current_part[s] = NoPart

\* C3: every dictionary get_kpis returns has total_parts equal to
\* station1_count + station2_count.
C3_SnapshotConsistent ==
    snapshot.total_parts = snapshot.station1_count + snapshot.station2_count

\* Thread t of station s is in the critical section of log_event.
InCritical(s, t) ==
    thr[s][t].pc \in {<<"log", "write">>, <<"log", "kpis">>, <<"log", "station">>}
\* ... and has written its row.
RowWritten(s, t) == thr[s][t].pc \in {<<"log", "kpis">>, <<"log", "station">>}

\* C4: at most one thread is in the append-and-update section of log_event
\* (the holder of the lock), and the record holds one well-formed row per
\* call that has written: the completed calls plus the one in the section.
C4_AppendExclusive ==
    /\ Cardinality({x \in Stations \X Threads : InCritical(x[1], x[2])}) <= 1
    /\ \A s \in Stations, t \in Threads : InCritical(s, t) <=> lock = <<s, t>>
    /\ Len(rows) = calls_done
                   + Cardinality({x \in Stations \X Threads : RowWritten(x[1], x[2])})
    /\ \A i \in 1..Len(rows) : rows[i] \in Stations \X TagIds \X Activities

\* One station is in the section while the other waits for the lock, with
\* rows of earlier calls in the record.
C4_Witness ==
    /\ InCritical("S1", 1)
    /\ thr["S2"][1].pc = <<"log", "acquire">>
    /\ Len(rows) >= 2
    /\ calls_done >= 2

\* C5: with no thread in log_event's critical section, total_parts is the
\* number of EXIT rows and stationN_count the number of EXIT rows of SN.
C5_KpisMatchRows ==
    lock = Free =>
       /\ kpis.total_parts = CountAct(EXIT)
       /\ kpis.station1_count = CountActOf("S1", EXIT)
       /\ kpis.station2_count = CountActOf("S2", EXIT)

\* Both stations have logged an EXIT, and rows of other activities are there.
C5_Witness ==
    /\ lock = Free
    /\ CountActOf("S1", EXIT) = 1
    /\ CountActOf("S2", EXIT) = 1
    /\ CountAct(ENTER) = 1
    /\ CountAct(ERROR_TIMEOUT_PROCESS) + CountAct(ERROR_TIMEOUT_EXIT) = 1

\* C6: once stop() has returned on a running controller, and until the next
\* start(), the station's motor is stopped.
C6_MotorOffAfterStop == \A s \in Stations : stopped[s] => motor[s] = 0

\* C7: a start() or stop() call leaves a running controller either untouched
\* (start) or stopping (stop), never with a further thread or a cleared stop
\* flag; it leaves a controller that is not running either untouched, motor
\* included (stop), or started with exactly one new loop thread (start).
C7_LifecycleNoOps ==
    [][ncalls' # ncalls =>
         \A s \in Stations :
            /\ motor'[s] = motor[s]
            /\ running[s] =>
                 /\ thread'[s] = thread[s]
                 /\ thr'[s] = thr[s]
                 /\ IF running'[s]
                    THEN stop_event'[s] = stop_event[s] /\ caller' = caller
                    ELSE stop_event'[s] /\ caller' = [pc |-> "join", s |-> s]
            /\ ~running[s] =>
                 /\ caller' = caller \/ caller'.s # s
                 /\ IF running'[s]
                    THEN /\ thread'[s] = thread[s] + 1
                         /\ ~stop_event'[s]
                         /\ thr'[s] = [thr[s] EXCEPT ![thread'[s]] = Local(AtLoop)]
                    ELSE /\ thread'[s] = thread[s]
                         /\ thr'[s] = thr[s]
                         /\ stop_event'[s] = stop_event[s]]_vars

\* Live loop threads of a controller.
Alive(s) == {t \in Threads : thr[s][t].pc \notin {Dead, Done, Crashed}}

\* Two calls were made on a controller, one of them a no-op: it runs with the
\* one loop thread it ever had.
C7_Witness ==
    \E s \in Stations :
       /\ ncalls = 2
       /\ running[s]
       /\ thread[s] = 1
       /\ Alive(s) = {1}

\* C8: when the re-check after read_tag reads false, the IDLE handler returns
\* as a no-op, whatever the tag read returned: no row is appended, no counter
\* and no motor command changes, current_part stays what it was (None when it
\* was None) and state stays IDLE; the steps before the re-check change none
\* of these either.
C8_DisappearanceNoOp ==
    [][\A s \in Stations, t \in Threads :
         /\ (thr[s][t].pc \in {<<"idle", "entry">>, <<"idle", "tag">>, <<"idle", "recheck">>}
             /\ thr'[s][t] # thr[s][t])
               => UNCHANGED <<rows, kpis, state, current_part, motor>>
         /\ (At(s, t, <<"idle", "identify">>) /\ ~thr[s][t].after /\ thr'[s][t] # thr[s][t])
               => /\ UNCHANGED <<rows, kpis, state, current_part, motor>>
                  /\ thr'[s][t].pc = AtLoop
                  /\ state'[s] = IDLE]_vars

\* The re-check has read false after a tag read that returned an identifier.
C8_Witness ==
    \E s \in Stations, t \in Threads :
       /\ At(s, t, <<"idle", "identify">>)
       /\ ~thr[s][t].after
       /\ thr[s][t].uid \in TagIds

\* The same after a tag read that returned None.
C8_WitnessNoTag ==
    \E s \in Stations, t \in Threads :
       /\ At(s, t, <<"idle", "identify">>)
       /\ ~thr[s][t].after
       /\ thr[s][t].uid = NoTag

\* C9: an exception in a handler never ends the loop thread, and once the
\* except clause has run the motor is stopped: whenever the thread is at the
\* loop test or has left the loop, the motor is not energized.
C9_FaultContained ==
    \A s \in Stations, t \in Threads :
       /\ thr[s][t].pc # Crashed
       /\ thr[s][t].pc \in {AtLoop, Done, Crashed} => motor[s] = 0

\* The part of C9 the code keeps: a handler that raises leaves self.state as
\* it was.
FailedHandlerKeepsState ==
    [][\A s \in Stations, t \in Threads :
         thr'[s][t].pc = AtExcept /\ thr[s][t].pc # AtExcept => state'[s] = state[s]]_vars

\* C10: a failure of log_event is not absorbed: the loop thread that handles
\* it does not go back to the loop.
C10_LogFailureFatal ==
    [][\A s \in Stations, t \in Threads :
         At(s, t, AtExcept) /\ thr[s][t].exc = "log" => thr'[s][t].pc # AtLoop]_vars

\* C11: when the position wait of an advancing handler has returned false,
\* the handler stops the motor and calls log_event with the timeout error of
\* its state for the owned part; that call appends exactly that one row and
\* changes no counter; the handler then sets current_part to None and state
\* to IDLE with the motor stopped.  The transit's rows are then ENTER and the
\* error, and the counters are those of the EXIT rows of other transits.
C11_TimeoutAbandons ==
    [][\A s \in Stations, t \in Threads : \A h \in Advancing :
         LET l == thr[s][t]
             moved == thr'[s][t] # l
             err == IF h = "atp" THEN ERROR_TIMEOUT_PROCESS ELSE ERROR_TIMEOUT_EXIT
         IN /\ (l.pc = <<h, "stop">> /\ ~l.trig /\ moved) =>
                 /\ motor'[s] = 0
                 /\ thr'[s][t].pc = <<"log", "acquire">>
                 /\ thr'[s][t].act = err
                 /\ thr'[s][t].pid = current_part[s]
                 /\ UNCHANGED <<rows, kpis, state, current_part>>
            /\ (l.pc[1] = "log" /\ l.ret = <<h, "abandon">> /\ moved) =>
                 /\ l.act = err
                 /\ kpis' = kpis
                 /\ rows' = IF l.pc = <<"log", "write">>
                            THEN Append(rows, <<s, current_part[s], err>>) ELSE rows
                 /\ thr'[s][t].pc[1] = "log" \/ thr'[s][t].pc = <<h, "abandon">>
                 /\ motor'[s] = 0
                 /\ UNCHANGED <<state, current_part>>
            /\ (l.pc = <<h, "abandon">> /\ moved) =>
                 /\ Len(Acts(s)) >= 2
                 /\ Acts(s)[Len(Acts(s)) - 1] = ENTER
                 /\ LastAct(s) = err
                 /\ kpis.total_parts = CountAct(EXIT)
                 /\ state'[s] = IDLE
                 /\ current_part'[s] = NoPart
                 /\ motor'[s] = 0
                 /\ thr'[s][t].pc = AtLoop
                 /\ UNCHANGED <<rows, kpis>>]_vars

\* A station is back in IDLE after a transit that timed out at the process
\* position and one that timed out at the exit position; no part was counted.
C11_Witness ==
    \E s \in Stations :
       /\ Acts(s) = <<ENTER, ERROR_TIMEOUT_PROCESS, ENTER, ERROR_TIMEOUT_EXIT>>
       /\ state[s] = IDLE
       /\ current_part[s] = NoPart
       /\ motor[s] = 0
       /\ kpis = KpiZero

\* The rows station s has logged, in order.
RowsOf(s) == LET IsOf(row) == row[1] = s IN SelectSeq(rows, IsOf)

\* C12: at every station, every row of a part other than ENTER has an ENTER
\* row of that part before it, and a part has at most one EXIT row per visit
\* of the station (no two EXIT rows of the part without an ENTER between them).
C12_EnterFirstExitOnce ==
    \A s \in Stations :
       LET r == RowsOf(s)
       IN \A i \in 1..Len(r) :
             /\ r[i][3] # ENTER =>
                   \E j \in 1..(i - 1) : r[j][3] = ENTER /\ r[j][2] = r[i][2]
             /\ r[i][3] = EXIT =>
                   ~\E j \in 1..(i - 1) :
                       /\ r[j][3] = EXIT
                       /\ r[j][2] = r[i][2]
                       /\ \A k \in (j + 1)..(i - 1) : r[k][3] # ENTER

\* The transitions of the station cycle, with the two timeout edges.
Edges ==
    { <<IDLE, ADVANCING_TO_PROCESS>>, <<ADVANCING_TO_PROCESS, PROCESSING>>,
      <<PROCESSING, ADVANCING_TO_EXIT>>, <<ADVANCING_TO_EXIT, EXITING>>,
      <<EXITING, IDLE>>, <<ADVANCING_TO_PROCESS, IDLE>>, <<ADVANCING_TO_EXIT, IDLE>> }

\* C13: the state of a controller, IDLE at first, changes only along the
\* edges of the cycle and the two timeout edges.
C13_StateEdges ==
    [][\A s \in Stations :
         state'[s] # state[s] => <<state[s], state'[s]>> \in Edges]_vars

\* The exit-clear wait of thread t of station s ended because its time was
\* over (the sensor read true at every poll).
ExitWaitTimedOut(s, t) == thr[s][t].polls = MaxExitPolls

\* C14: after the exit-clear wait, whether the sensor cleared or the time was
\* over, the EXITING handler stops the motor and, owning a part, calls
\* log_event with EXIT for it; that call appends the part's EXIT row and
\* increments total_parts and the station's counter; the handler then sets
\* current_part to None and state to IDLE, the motor still stopped.
C14_ExitingCompletes ==
    [][\A s \in Stations, t \in Threads :
         LET l == thr[s][t]
             moved == thr'[s][t] # l
         IN /\ (l.pc = <<"ex", "stop">> /\ moved) =>
                 /\ motor'[s] = 0
                 /\ current_part[s] # NoPart
                 /\ thr'[s][t].pc = <<"log", "acquire">>
                 /\ thr'[s][t].act = EXIT
                 /\ thr'[s][t].pid = current_part[s]
                 /\ UNCHANGED <<rows, kpis, state, current_part>>
            /\ (l.pc[1] = "log" /\ l.ret = <<"ex", "add">> /\ moved) =>
                 /\ l.act = EXIT
                 /\ rows' = IF l.pc = <<"log", "write">>
                            THEN Append(rows, <<s, current_part[s], EXIT>>) ELSE rows
                 /\ kpis' = CASE l.pc = <<"log", "kpis">> ->
                                    [kpis EXCEPT !.total_parts = @ + 1]
                              [] l.pc = <<"log", "station">> /\ s = "S1" ->
                                    [kpis EXCEPT !.station1_count = @ + 1]
                              [] l.pc = <<"log", "station">> /\ s = "S2" ->
                                    [kpis EXCEPT !.station2_count = @ + 1]
                              [] OTHER -> kpis
                 /\ thr'[s][t].pc[1] = "log" \/ thr'[s][t].pc = <<"ex", "add">>
                 /\ motor'[s] = 0
                 /\ UNCHANGED <<state, current_part>>
            /\ (l.pc = <<"ex", "add">> /\ moved) =>
                 /\ LastAct(s) = EXIT
                 /\ kpis.total_parts = CountAct(EXIT)
                 /\ state'[s] = IDLE
                 /\ current_part'[s] = NoPart
                 /\ motor'[s] = 0
                 /\ thr'[s][t].pc = AtLoop
                 /\ UNCHANGED <<rows, kpis>>]_vars

\* The exit sensor stayed true for the whole wait, and the EXIT row of the
\* part has been appended and counted.
C14_Witness ==
    \E s \in Stations, t \in Threads :
       /\ At(s, t, <<"log", "station">>)
       /\ thr[s][t].act = EXIT
       /\ ExitWaitTimedOut(s, t)
       /\ LastAct(s) = EXIT
       /\ kpis.total_parts = 1

\* The same with the exit sensor read false at the first poll.
C14_WitnessCleared ==
    \E s \in Stations, t \in Threads :
       /\ At(s, t, <<"log", "station">>)
       /\ thr[s][t].act = EXIT
       /\ thr[s][t].polls = 0
       /\ LastAct(s) = EXIT
       /\ kpis.total_parts = 1

\* Places of a loop thread inside an advancing or the EXITING handler after
\* its set_speed, up to and including its motors.stop.
MotorSection ==
    {<<h, p>> : h \in Advancing, p \in {"wait", "stop"}} \cup {<<"ex", "poll">>, <<"ex", "stop">>}

C16_OwnsIffNotIdle ==
    \A s \in Stations, t \in Threads :
       At(s, t, AtLoop) => (current_part[s] # NoPart <=> state[s] # IDLE)

\* C17: state and current_part change only in steps of a loop thread that is
\* inside a handler, never in a step of start() or stop(); a thread that
\* start() spawns is at the loop test and dispatches on the state it finds.
C17_LifecycleFrame ==
    [][\A s \in Stations :
         /\ (state'[s] # state[s] \/ current_part'[s] # current_part[s]) =>
               /\ ncalls' = ncalls
               /\ caller' = caller
               /\ UNCHANGED <<running, stop_event, thread>>
               /\ \E t \in Threads :
                     /\ thr'[s][t] # thr[s][t]
                     /\ thr[s][t].pc \notin {Dead, Done, Crashed, AtLoop, AtExcept}
         /\ thread'[s] # thread[s] =>
               /\ thr'[s][thread'[s]].pc = AtLoop
               /\ UNCHANGED <<state, current_part>>
         /\ \A t \in Threads :
               (At(s, t, AtLoop) /\ thr'[s][t] # thr[s][t] /\ KeepsRunning(s)) =>
                  thr'[s][t].pc = Dispatch(state[s])]_vars

\* A controller was stopped in the middle of a transit, its loop thread has
\* ended, and the thread of the next start() is in the handler of the state
\* the transit was left in, with the part still owned.
C17_Witness ==
    \E s \in Stations :
       /\ thread[s] = 2
       /\ thr[s][1].pc = Done
       /\ running[s]
       /\ state[s] = PROCESSING
       /\ thr[s][2].pc = <<"proc", "dwell">>
       /\ current_part[s] # NoPart

\* C18: constructing a SensorReader never ends with an exception of a
\* hardware call propagating; when live mode was chosen and a hardware call
\* failed, the constructed reader has simulation = TRUE; and when simulation
\* was requested or the libraries are unavailable, no hardware call is made.
C18_HardwareNeverFatal ==
    /\ init.pc \in {"import", "none", "log_simulation", "setmode", "setwarnings", "setup",
                   "i2c", "mcp", "get_pin", "direction", "pull", "store", "except",
                   "done"}
    /\ init.pc = "done" /\ init.exc # "none" => simulation
    /\ init.pc = "except" => ~init.arg /\ HARDWARE_AVAILABLE
    /\ init.pc \notin {"import", "none"} /\ (init.arg \/ ~HARDWARE_AVAILABLE) => hw_steps = 0

\* The last expander pin failed to configure after everything before it
\* succeeded, and the reader came out in simulation mode.
C18_Witness ==
    /\ init.pc = "done"
    /\ init.exc # "none"
    /\ simulation = TRUE
    /\ mcp
    /\ Cardinality(mcp_pins) = Len(MCP_PIN_MAP) - 1

\* Loop threads of a controller that are inside one of its state handlers
\* (calls the handler makes included).
InHandler(s) == {t \in Threads : thr[s][t].pc[1] \notin {"none", "caller", "run"}}

\* C19: whatever start() and stop() calls were made on a controller, at most
\* one loop thread is inside its state handlers at any time.
C19_OneLoopThread == \A s \in Stations : Cardinality(InHandler(s)) <= 1

\* C20: once stop() has set the flag of a controller that is not started
\* again, its loop thread ends under fair scheduling, and from then on a
\* thread at the loop test leaves the loop instead of entering a handler: the
\* handler it was in when the flag was set is the last one it runs, also when
\* that handler raises and the except clause of _run is taken.
C20_StopTerminates ==
    /\ \A s \in Stations : stop_event[s] ~> (Alive(s) = {})
    /\ [][\A s \in Stations, t \in Threads :
            stop_event[s] /\ thr'[s][t] # thr[s][t] =>
               /\ At(s, t, AtLoop) => thr'[s][t].pc = Done
               /\ thr'[s][t].pc[1] = thr[s][t].pc[1]
                  \/ thr'[s][t].pc[1] \in {"run", "log"}
                  \/ (thr[s][t].pc[1] = "log" /\ thr'[s][t].pc = thr[s][t].ret)]_vars

\* The flag was set while the thread was in a handler that then raised: the
\* thread went through the except clause, left the loop and ended, with the
\* station in the middle of its cycle.
C20_Witness ==
    \E s \in Stations :
       /\ stop_event[s]
       /\ At(s, 1, Done)
       /\ faults > 0
       /\ state[s] # IDLE
       /\ current_part[s] # NoPart
====
